---------------------------- MODULE Spec2Model ----------------------------
(***************************************************************************)
(* Model of the remotewallet package: the wallet state machine (state      *)
(* lock, communication token, heartbeat task, Open/Close/SignTx/...) and   *)
(* the RemoteWallet registry (throttled refresh, Subscribe, updater).      *)
(*                                                                         *)
(* Every goroutine is a task with a program counter; one action is one     *)
(* step between two points where another goroutine may observe or block    *)
(* it (a lock request, a channel operation, a call into the driver).       *)
(*                                                                         *)
(* The driver is the interface of part_000:40-72, made by the registry's   *)
(* makeDriver: each of its calls may answer whatever the interface allows  *)
(* (an error or none, any signer, any account list).                       *)
(***************************************************************************)
EXTENDS Integers, Sequences, FiniteSets, TLC

(***************************************************************************)
(* Bounds of the model.                                                    *)
(***************************************************************************)
NClients == 2      \* goroutines calling the wallet's methods
MaxOpens == 2      \* successful Open() calls explored (one heartbeat task each)
NCallers == 2      \* goroutines calling the registry's methods
MaxUpdaters == 2   \* updater goroutines that may be alive at once
MaxSubs == 2       \* live subscriptions explored
SmallStep == 250   \* a clock step shorter than the throttle window (ms)

(***************************************************************************)
(* Program constants (milliseconds).                                       *)
(***************************************************************************)
refreshThrottling == 500
refreshCycle == 60000

VeriteemSigningServer == "http://13.59.10.65:80"
RemoteWalletScheme == "remotewallet"

Nil == 0                        \* Go's nil for a channel, a task or a list entry

Clients == 1..NClients
\* One more goroutine, which calls the wallet only where three callers are needed.
Extra == NClients + 1
AllClients == Clients \cup {Extra}
Hbs == (Extra + 1)..(Extra + MaxOpens)
Tasks == AllClients \cup Hbs
\* Goroutines of the registry: Wallets()/Subscribe() callers, updaters, and the
\* goroutine that runs newRemoteWallet.
Callers == 1..NCallers
Updaters == (NCallers + 1)..(NCallers + MaxUpdaters)
Ctor == NCallers + MaxUpdaters + 1
RTasks == Callers \cup Updaters \cup {Ctor}
Chans == 1..MaxOpens            \* healthQuit channels, one made per successful Open
HbOf(k) == Extra + k         \* the heartbeat goroutine started with channel k

Addrs == {"a1", "a2"}
\* Account lists the driver's ReadAccounts may return.
DriverLists == {<< >>, <<"a1">>, <<"a2", "a1">>}

VARIABLES
    \* ---- wallet fields (part_000:75-108)
    accounts,     \* w.accounts: the cached account list
    paths,        \* w.paths: "nil" or "map"
    healthQuit,   \* w.healthQuit: Nil or a channel id
    commsLock,    \* w.commsLock: "nil" channel, or a 1-slot buffer "token" / "empty"
    stateLock,    \* w.stateLock: [writer, held, readers]
    \* ---- goroutines of the wallet
    pc,           \* program counter of every client and heartbeat goroutine
    arg,          \* the account argument of the client's current call
    hQuit,        \* Close's local hQuit
    herr,         \* Close's local herr
    hbch,         \* heartbeat: the channel its select waits on
    errc,         \* heartbeat: its local errc (the requesting client, or Nil)
    err,          \* heartbeat: its local err
    senders,      \* goroutines started by Open that have not yet sent Opened
    done,         \* the call that returned in the last step: [who, op, res, list, drv],
                  \* list the list it returned, drv what the driver had answered
    \* ---- registry fields (part_001:301-317)
    wallets,      \* remoteWallet.wallets: the tracked wallets
    sinceRefresh, \* time.Since(remoteWallet.refreshed), saturating at refreshThrottling
    updating,     \* remoteWallet.updating
    subs,         \* updateScope.Count(): live subscriptions
    regLock,      \* remoteWallet.stateLock: [writer, held, readers]
    feed,         \* events sent through updateFeed, by kind
    \* ---- goroutines of the registry
    rpc,          \* program counter of the constructor, callers and updaters
    events,       \* refreshWallets' local events, per task
    slept         \* how long each updater has been in time.Sleep, saturating at refreshCycle

fields == <<accounts, paths, healthQuit, commsLock>>
clocals == <<arg, hQuit, herr>>
hlocals == <<hbch, errc, err>>
wvars == <<fields, stateLock, pc, clocals, hlocals, senders>>
rvars == <<wallets, sinceRefresh, updating, subs, regLock, rpc, events, slept>>
vars == <<wvars, rvars, feed, done>>

\* No call returned in the last step.
NoCall == [who |-> Nil, op |-> "none", res |-> "none", list |-> << >>, drv |-> << >>]
Returned(c, o, r) == [who |-> c, op |-> o, res |-> r, list |-> << >>, drv |-> << >>]

(***************************************************************************)
(* sync.RWMutex as the Go runtime implements it: Lock() first announces    *)
(* the writer, which makes every later RLock() wait, then waits for the    *)
(* readers that already hold the lock; RLock() returns at once when no     *)
(* writer has announced itself.                                            *)
(***************************************************************************)
FreeLock(S) == [writer |-> Nil, held |-> FALSE, readers |-> [t \in S |-> 0]]
RLockReady(l) == l.writer = Nil
RLock(l, t) == [l EXCEPT !.readers[t] = @ + 1]
RUnlock(l, t) == [l EXCEPT !.readers[t] = @ - 1]
LockAnnounce(l, t) == [l EXCEPT !.writer = t]
LockReady(l, t) == l.writer = t /\ \A u \in DOMAIN l.readers : l.readers[u] = 0
Lock(l) == [l EXCEPT !.held = TRUE]
Unlock(l) == [l EXCEPT !.writer = Nil, !.held = FALSE]

\* A scan that answers for the list, not for the account.
ContainsAnyAccount(list, account) == Len(list) > 0

\* Contains' linear scan of the cached list (part_000:274-279).
Contains(list, account) == \E i \in 1..Len(list) : list[i] = account

\* Open without its test.
AlreadyOpenNever(p) == FALSE

\* Open's test for an already opened wallet (part_000:133).
AlreadyOpen(p) == p /= "nil"

\* An Open that sets up paths before it looks at the driver's answer.
PathsAfterOpenAlways(p, ok) == "map"

\* What Open leaves in paths and healthQuit, by the driver's answer (part_000:137-143).
PathsAfterOpen(p, ok) == IF ok THEN "map" ELSE p
HealthQuitAfterOpen(hq, ok, fresh) == IF ok THEN fresh ELSE hq

\* An Open that starts the sender of the Opened event before it looks at the
\* driver's answer.
SendersAfterOpenAlways(n, ok) == n + 1

\* The goroutines Open has started to send the Opened event (part_000:137-148).
SendersAfterOpen(n, ok) == IF ok THEN n + 1 ELSE n

\* A SignTx that does not compare the signer with the account.
SignTxResultUnchecked(account, sender, ok) == IF ~ok THEN "ErrDriver" ELSE "signed"

\* SignTx's answer once the driver's SignTx has returned (part_000:321-328).
SignTxResult(account, sender, ok) ==
    IF ~ok THEN "ErrDriver"
    ELSE IF sender /= account THEN "ErrSignerMismatch"
    ELSE "signed"

\* A Close that leaves the handshake channel in place.
HealthQuitKept(hq) == hq

\* What Close leaves in healthQuit (part_000:215).
HealthQuitAfterClose(hq) == Nil

\* Close's return value (part_000:217-223); close() always returns nil.
CloseResult(he) == IF he /= "nil" THEN "ErrHeartbeat" ELSE "ok"

Spawned == {k \in Chans : pc[HbOf(k)] /= "hb_unborn"}
OpensInFlight == {c \in AllClients : pc[c] \in {"open_wait", "open_driver"}}
\* The channel the next successful Open makes, and with it the next heartbeat task.
FreshChan == CHOOSE k \in Chans : pc[HbOf(k)] = "hb_unborn"
                                   /\ \A j \in Chans : j < k => pc[HbOf(j)] /= "hb_unborn"
\* The wallet can be reached once newRemoteWallet has returned the registry.
WalletExists == rpc[Ctor] = "done" /\ Len(wallets) > 0

\* ------------------------------------------------------------------ Open
\* A client calls Open; w.stateLock.Lock() is entered: the writer is announced
\* (part_000:127-129).
OpenLock(c) ==
    /\ pc[c] = "idle" /\ WalletExists /\ stateLock.writer = Nil
    /\ Cardinality(Spawned) + Cardinality(OpensInFlight) < MaxOpens
    /\ stateLock' = LockAnnounce(stateLock, c)
    /\ pc' = [pc EXCEPT ![c] = "open_wait"]
    /\ done' = NoCall
    /\ UNCHANGED <<fields, clocals, hlocals, senders, rvars, feed>>

\* Lock() returns; the paths test; either ErrWalletAlreadyOpen (and the deferred
\* Unlock) or the call into driver.Open (part_000:129-137).
OpenEnter(c) ==
    /\ pc[c] = "open_wait" /\ LockReady(stateLock, c)
    /\ IF AlreadyOpen(paths)
       THEN /\ done' = Returned(c, "Open", "ErrWalletAlreadyOpen")
            /\ stateLock' = Unlock(stateLock)
            /\ pc' = [pc EXCEPT ![c] = "idle"]
       ELSE /\ done' = NoCall
            /\ stateLock' = Lock(stateLock)
            /\ pc' = [pc EXCEPT ![c] = "open_driver"]
    /\ UNCHANGED <<fields, clocals, hlocals, senders, rvars, feed>>

\* driver.Open returns; on success the life-cycle management starts: paths,
\* healthQuit, go heartbeat(), go updateFeed.Send(WalletOpened); the deferred
\* Unlock (part_000:137-151).
OpenDriverReturn(c) ==
    /\ pc[c] = "open_driver"
    /\ \E ok \in BOOLEAN :
         /\ paths' = PathsAfterOpen(paths, ok)
         /\ healthQuit' = HealthQuitAfterOpen(healthQuit, ok, FreshChan)
         /\ senders' = SendersAfterOpen(senders, ok)
         /\ done' = Returned(c, "Open", IF ok THEN "ok" ELSE "ErrDriver")
         /\ pc' = IF ok THEN [pc EXCEPT ![c] = "idle", ![HbOf(FreshChan)] = "hb_loop"]
                        ELSE [pc EXCEPT ![c] = "idle"]
    /\ stateLock' = Unlock(stateLock)
    /\ UNCHANGED <<accounts, commsLock, clocals, hlocals, rvars, feed>>

\* The goroutine started by Open delivers the Opened event (part_000:148).
FeedSendOpened ==
    /\ senders > 0
    /\ senders' = senders - 1
    /\ feed' = Append(feed, [Wallet |-> wallets[1], Kind |-> "Opened"])
    /\ done' = NoCall
    /\ UNCHANGED <<fields, stateLock, pc, clocals, hlocals, rvars>>

\* ------------------------------------------------------------- heartbeat
\* A heartbeat that goes for the communication token without the state lock.
HbSharedMissing(l, h) == l

\* The state lock as the heartbeat task takes it before the token (part_000:174).
HbShared(l, h) == RLock(l, h)

\* A heartbeat that keeps the error of its last iteration.
ErrKept(e) == e

\* The error the task tracks once an iteration is over: err = nil
\* (part_000:185-186).
ErrAfterIteration(e) == "nil"

\* The loop condition (errc == nil && err == nil); errc is nil whenever the
\* task is here. With err nil the select statement evaluates w.healthQuit,
\* without the state lock; with an error the loop is left and the task waits
\* in errc = <-w.healthQuit (part_000:164-167, 189-192).
HbLoop(h) ==
    /\ pc[h] = "hb_loop"
    /\ hbch' = [hbch EXCEPT ![h] = healthQuit]
    /\ pc' = [pc EXCEPT ![h] = IF err[h] = "nil" THEN "hb_select" ELSE "hb_failed"]
    /\ done' = NoCall
    /\ UNCHANGED <<fields, stateLock, clocals, errc, err, senders, rvars, feed>>

\* case <-time.After(heartbeatCycle) (part_000:170).
HbTimer(h) ==
    /\ pc[h] = "hb_select"
    /\ pc' = [pc EXCEPT ![h] = "hb_rlock"]
    /\ done' = NoCall
    /\ UNCHANGED <<fields, stateLock, clocals, hlocals, senders, rvars, feed>>

\* w.stateLock.RLock() (part_000:174).
HbRLock(h) ==
    /\ pc[h] = "hb_rlock" /\ RLockReady(stateLock)
    /\ stateLock' = HbShared(stateLock, h)
    /\ pc' = [pc EXCEPT ![h] = "hb_comms"]
    /\ done' = NoCall
    /\ UNCHANGED <<fields, clocals, hlocals, senders, rvars, feed>>

\* <-w.commsLock: a receive from a nil channel never returns (part_000:175).
HbComms(h) ==
    /\ pc[h] = "hb_comms" /\ commsLock = "token"
    /\ commsLock' = "empty"
    /\ pc' = [pc EXCEPT ![h] = "hb_beat"]
    /\ done' = NoCall
    /\ UNCHANGED <<accounts, paths, healthQuit, stateLock, clocals, hlocals,
                   senders, rvars, feed>>

\* driver.Heartbeat() returns; the token and the shared lock are released
\* (part_000:176-180). Without an error the iteration ends (err = nil).
HbBeat(h) ==
    /\ pc[h] = "hb_beat"
    /\ \E ok \in BOOLEAN :
         /\ err' = [err EXCEPT ![h] = IF ok THEN ErrAfterIteration("nil") ELSE "fail"]
         /\ pc' = [pc EXCEPT ![h] = IF ok THEN "hb_loop" ELSE "hb_lock"]
    /\ commsLock' = "token"
    /\ stateLock' = RUnlock(stateLock, h)
    /\ done' = NoCall
    /\ UNCHANGED <<accounts, paths, healthQuit, clocals, hbch, errc, senders,
                   rvars, feed>>

\* err != nil: w.stateLock.Lock() is entered (part_000:181).
HbLock(h) ==
    /\ pc[h] = "hb_lock" /\ stateLock.writer = Nil
    /\ stateLock' = LockAnnounce(stateLock, h)
    /\ pc' = [pc EXCEPT ![h] = "hb_wait"]
    /\ done' = NoCall
    /\ UNCHANGED <<fields, clocals, hlocals, senders, rvars, feed>>

\* w.close() under the exclusive lock, Unlock, err = nil (part_000:182-186,
\* 230-238): accounts and paths are cleared, healthQuit is left as it is.
HbTeardown(h) ==
    /\ pc[h] = "hb_wait" /\ LockReady(stateLock, h)
    /\ accounts' = << >>
    /\ paths' = "nil"
    /\ stateLock' = Unlock(stateLock)
    /\ err' = [err EXCEPT ![h] = ErrAfterIteration(err[h])]
    /\ pc' = [pc EXCEPT ![h] = "hb_loop"]
    /\ done' = NoCall
    /\ UNCHANGED <<healthQuit, commsLock, clocals, hbch, errc, senders, rvars, feed>>

\* ----------------------------------------------------------------- Close
\* A client calls Close: RLock; hQuit := w.healthQuit; RUnlock; var herr error
\* (part_000:197-206).
CloseRead(c) ==
    /\ pc[c] = "idle" /\ WalletExists /\ RLockReady(stateLock)
    /\ hQuit' = [hQuit EXCEPT ![c] = healthQuit]
    /\ herr' = [herr EXCEPT ![c] = "nil"]
    /\ pc' = [pc EXCEPT ![c] = IF healthQuit /= Nil THEN "close_send" ELSE "close_lock"]
    /\ done' = NoCall
    /\ UNCHANGED <<fields, stateLock, arg, hlocals, senders, rvars, feed>>

\* hQuit <- errc meets a heartbeat task's receive from w.healthQuit on the same
\* unbuffered channel, in its select or after its loop; from the select the
\* task leaves the loop with err nil; either way it goes on to errc <- err
\* (part_000:207-208, 167-169, 189-193).
CloseSend(c, h) ==
    /\ pc[c] = "close_send" /\ pc[h] \in {"hb_select", "hb_failed"}
    /\ hbch[h] = hQuit[c]
    /\ errc' = [errc EXCEPT ![h] = c]
    /\ pc' = [pc EXCEPT ![c] = "close_recv", ![h] = "hb_ack"]
    /\ done' = NoCall
    /\ UNCHANGED <<fields, stateLock, clocals, hbch, err, senders, rvars, feed>>

\* herr = <-errc meets the task's errc <- err; the task returns
\* (part_000:209, 193).
CloseRecv(c, h) ==
    /\ pc[c] = "close_recv" /\ pc[h] = "hb_ack" /\ errc[h] = c
    /\ herr' = [herr EXCEPT ![c] = err[h]]
    /\ pc' = [pc EXCEPT ![c] = "close_lock", ![h] = "hb_done"]
    /\ done' = NoCall
    /\ UNCHANGED <<fields, stateLock, arg, hQuit, hlocals, senders, rvars, feed>>

\* w.stateLock.Lock() is entered (part_000:212).
CloseLock(c) ==
    /\ pc[c] = "close_lock" /\ stateLock.writer = Nil
    /\ stateLock' = LockAnnounce(stateLock, c)
    /\ pc' = [pc EXCEPT ![c] = "close_wait"]
    /\ done' = NoCall
    /\ UNCHANGED <<fields, clocals, hlocals, senders, rvars, feed>>

\* Lock() returns; w.healthQuit = nil; w.close(); the result; the deferred
\* Unlock (part_000:212-224, 230-238).
CloseTeardown(c) ==
    /\ pc[c] = "close_wait" /\ LockReady(stateLock, c)
    /\ healthQuit' = HealthQuitAfterClose(healthQuit)
    /\ accounts' = << >>
    /\ paths' = "nil"
    /\ done' = Returned(c, "Close", CloseResult(herr[c]))
    /\ stateLock' = Unlock(stateLock)
    /\ hQuit' = [hQuit EXCEPT ![c] = Nil]
    /\ pc' = [pc EXCEPT ![c] = "idle"]
    /\ UNCHANGED <<commsLock, arg, herr, hlocals, senders, rvars, feed>>

\* ---------------------------------------------------------------- SignTx
\* A client calls SignTx, or SignTxWithPassphrase, which forwards to it;
\* w.stateLock.RLock() (part_000:309-312, 342-345).
SignTxRLock(c, a) ==
    /\ pc[c] = "idle" /\ WalletExists /\ RLockReady(stateLock)
    /\ stateLock' = RLock(stateLock, c)
    /\ arg' = [arg EXCEPT ![c] = a]
    /\ pc' = [pc EXCEPT ![c] = "sign_contains"]
    /\ done' = NoCall
    /\ UNCHANGED <<fields, hQuit, herr, hlocals, senders, rvars, feed>>

\* w.Contains(account): RLock a second time, scan, RUnlock; an unknown account
\* returns ErrUnknownAccount, a known one goes into driver.SignTx
\* (part_000:317-321, 265-282).
SignTxContains(c) ==
    /\ pc[c] = "sign_contains" /\ RLockReady(stateLock)
    /\ IF Contains(accounts, arg[c])
       THEN /\ pc' = [pc EXCEPT ![c] = "sign_driver"]
            /\ done' = NoCall
            /\ UNCHANGED <<arg, stateLock>>
       ELSE /\ done' = Returned(c, "SignTx", "ErrUnknownAccount")
            /\ arg' = [arg EXCEPT ![c] = "none"]
            /\ stateLock' = RUnlock(stateLock, c)
            /\ pc' = [pc EXCEPT ![c] = "idle"]
    /\ UNCHANGED <<fields, hQuit, herr, hlocals, senders, rvars, feed>>

\* driver.SignTx returns (sender, signedTx, err); the deferred RUnlock
\* (part_000:321-329).
SignTxReturn(c) ==
    /\ pc[c] = "sign_driver"
    /\ \E sender \in Addrs, ok \in BOOLEAN :
         done' = [who |-> c, op |-> "SignTx",
                  res |-> SignTxResult(arg[c], sender, ok),
                  list |-> << >>,
                  drv |-> <<arg[c], sender, IF ok THEN "ok" ELSE "fail">>]
    /\ arg' = [arg EXCEPT ![c] = "none"]
    /\ stateLock' = RUnlock(stateLock, c)
    /\ pc' = [pc EXCEPT ![c] = "idle"]
    /\ UNCHANGED <<fields, hQuit, herr, hlocals, senders, rvars, feed>>

\* ---------------------------------------------------------------- Status
\* A client calls Status (part_000:117-118).
StatusCall(c) ==
    /\ pc[c] = "idle" /\ WalletExists
    /\ pc' = [pc EXCEPT ![c] = "status_rlock"]
    /\ done' = NoCall
    /\ UNCHANGED <<fields, stateLock, clocals, hlocals, senders, rvars, feed>>

\* RLock; driver.Status() reads the driver's fields; RUnlock (part_000:119-123).
StatusReturn(c) ==
    /\ pc[c] = "status_rlock" /\ RLockReady(stateLock)
    /\ pc' = [pc EXCEPT ![c] = "idle"]
    /\ done' = Returned(c, "Status", "status")
    /\ UNCHANGED <<fields, stateLock, clocals, hlocals, senders, rvars, feed>>

\* -------------------------------------------------------------- Accounts
\* A client calls Accounts; w.stateLock.RLock() (part_000:243-249).
AccountsRLock(c) ==
    /\ pc[c] = "idle" /\ WalletExists /\ RLockReady(stateLock)
    /\ stateLock' = RLock(stateLock, c)
    /\ pc' = [pc EXCEPT ![c] = "accounts_driver"]
    /\ done' = NoCall
    /\ UNCHANGED <<fields, clocals, hlocals, senders, rvars, feed>>

\* w.accounts, err = w.driver.ReadAccounts(): the field is assigned whatever
\* the driver returns, which with an error is the empty list
\* (SigningServer.go:58,74,84); then the copy and the deferred RUnlock
\* (part_000:251-258).
AccountsReturn(c) ==
    /\ pc[c] = "accounts_driver"
    /\ \E list \in DriverLists, ok \in BOOLEAN :
         /\ accounts' = IF ok THEN list ELSE << >>
         /\ done' = [who |-> c, op |-> "Accounts",
                     res |-> IF ok THEN "ok" ELSE "empty",
                     list |-> IF ok THEN list ELSE << >>,
                     drv |-> << >>]
    /\ stateLock' = RUnlock(stateLock, c)
    /\ pc' = [pc EXCEPT ![c] = "idle"]
    /\ UNCHANGED <<paths, healthQuit, commsLock, clocals, hlocals, senders,
                   rvars, feed>>

\* A client calls Contains: RLock, scan, RUnlock (part_000:265-282).
ContainsCall(c, a) ==
    /\ pc[c] = "idle" /\ WalletExists /\ RLockReady(stateLock)
    /\ done' = Returned(c, "Contains", IF Contains(accounts, a) THEN "true" ELSE "false")
    /\ UNCHANGED <<wvars, rvars, feed>>

(***************************************************************************)
(* The registry (RemoteWallet).                                            *)
(***************************************************************************)
\* The fields NewVeriteemWallet configures (part_001:324-332, 338-339).
scheme == RemoteWalletScheme
serverURL == VeriteemSigningServer

Min(a, b) == IF a < b THEN a ELSE b

\* A refresh without the throttling guard.
ThrottledNever(elapsed) == FALSE

\* The throttling guard of refreshWallets (part_001:373-376).
Throttled(elapsed) == elapsed < refreshThrottling

\* A refresh that creates a wallet on every scan.
MustCreateAlways(ws) == TRUE

\* Whether refreshWallets has to create the wallet (part_001:383).
MustCreate(ws) == Len(ws) = 0

\* Wallets constructed so far: each construction queues one Arrived event.
Arrivals(q) == Cardinality({i \in 1..Len(q) : q[i].Kind = "Arrived"})
RECURSIVE SumArrivals(_)
SumArrivals(S) ==
    IF S = {} THEN 0
    ELSE LET t == CHOOSE x \in S : TRUE
         IN  Arrivals(events[t]) + SumArrivals(S \ {t})
Made == Arrivals(feed) + SumArrivals(RTasks)

\* The wallet refreshWallets constructs (part_001:385-387); id tells one
\* constructed object from another.
NewWallet == [id |-> Made + 1,
              url |-> [Scheme |-> scheme, Path |-> VeriteemSigningServer]]

\* Where a task goes on when its refreshWallets call returns
\* (part_001:345-346, 354-356, 430-433).
AfterRefresh(t) ==
    IF t = Ctor THEN "done" ELSE IF t \in Callers THEN "w_rlock" ELSE "u_lock"

\* elapsed := time.Since(refreshed); the throttle test; events := []
\* (part_001:373-378). No lock is taken anywhere in refreshWallets.
RefreshCheck(t) ==
    /\ rpc[t] = "r_check"
    /\ rpc' = [rpc EXCEPT ![t] = IF Throttled(sinceRefresh) THEN AfterRefresh(t)
                                                             ELSE "r_scan"]
    /\ events' = [events EXCEPT ![t] = << >>]
    /\ done' = IF Throttled(sinceRefresh) THEN Returned(t, "refreshWallets", "throttled")
                                          ELSE NoCall
    /\ UNCHANGED <<wvars, wallets, sinceRefresh, updating, subs, regLock, slept, feed>>

\* if len(remoteWallet.wallets) == 0 (part_001:383).
RefreshScan(t) ==
    /\ rpc[t] = "r_scan"
    /\ rpc' = [rpc EXCEPT ![t] = IF MustCreate(wallets) THEN "r_create" ELSE "r_stamp"]
    /\ done' = NoCall
    /\ UNCHANGED <<wvars, wallets, sinceRefresh, updating, subs, regLock, events,
                   slept, feed>>

\* The wallet is constructed, the Arrived event queued, the list replaced
\* (part_001:384-390).
RefreshCreate(t) ==
    /\ rpc[t] = "r_create"
    /\ wallets' = <<NewWallet>>
    /\ events' = [events EXCEPT ![t] = Append(@, [Wallet |-> NewWallet, Kind |-> "Arrived"])]
    /\ rpc' = [rpc EXCEPT ![t] = "r_stamp"]
    /\ done' = NoCall
    /\ UNCHANGED <<wvars, sinceRefresh, updating, subs, regLock, slept, feed>>

\* remoteWallet.refreshed = time.Now() (part_001:392).
RefreshStamp(t) ==
    /\ rpc[t] = "r_stamp"
    /\ sinceRefresh' = 0
    /\ rpc' = [rpc EXCEPT ![t] = "r_send"]
    /\ done' = NoCall
    /\ UNCHANGED <<wvars, wallets, updating, subs, regLock, events, slept, feed>>

\* Every queued event is sent through the feed; refreshWallets returns
\* (part_001:395-398).
RefreshSend(t) ==
    /\ rpc[t] = "r_send"
    /\ feed' = feed \o events[t]
    /\ events' = [events EXCEPT ![t] = << >>]
    /\ rpc' = [rpc EXCEPT ![t] = AfterRefresh(t)]
    /\ done' = Returned(t, "refreshWallets", "refreshed")
    /\ UNCHANGED <<wvars, wallets, sinceRefresh, updating, subs, regLock, slept>>

Refresh(t) ==
    \/ RefreshCheck(t) \/ RefreshScan(t) \/ RefreshCreate(t)
    \/ RefreshStamp(t) \/ RefreshSend(t)

Constructed == rpc[Ctor] = "done"

\* A caller calls Wallets(), which starts with refreshWallets (part_001:351-354).
WalletsCall(c) ==
    /\ rpc[c] = "idle" /\ Constructed
    /\ rpc' = [rpc EXCEPT ![c] = "r_check"]
    /\ done' = NoCall
    /\ UNCHANGED <<wvars, wallets, sinceRefresh, updating, subs, regLock, events,
                   slept, feed>>

\* RLock; the copy of the list; RUnlock (part_001:356-361).
WalletsCopy(c) ==
    /\ rpc[c] = "w_rlock" /\ RLockReady(regLock)
    /\ done' = [who |-> c, op |-> "Wallets", res |-> "ok", list |-> wallets,
                drv |-> << >>]
    /\ rpc' = [rpc EXCEPT ![c] = "idle"]
    /\ UNCHANGED <<wvars, wallets, sinceRefresh, updating, subs, regLock, events,
                   slept, feed>>

\* An updater that compares the subscriber count the wrong way.
MustStopNever(count) == count < 0

\* An updater that stops while one subscription is still live.
MustStopEarly(count) == count <= 1

\* A Subscribe that starts an updater whatever the flag says.
MustStartAlways(upd) == TRUE

\* Subscribe's test for starting the updater (part_001:413).
MustStart(upd) == ~upd
\* The updater's test for stopping (part_001:434).
MustStop(count) == count = 0

FreeUpdater == CHOOSE u \in Updaters : rpc[u] = "u_none"
                                       /\ \A v \in Updaters : v < u => rpc[v] /= "u_none"

\* A caller calls Subscribe; remoteWallet.stateLock.Lock() is entered
\* (part_001:402-404).
SubscribeLock(c) ==
    /\ rpc[c] = "idle" /\ Constructed /\ regLock.writer = Nil
    /\ subs < MaxSubs
    /\ regLock' = LockAnnounce(regLock, c)
    /\ rpc' = [rpc EXCEPT ![c] = "s_wait"]
    /\ done' = NoCall
    /\ UNCHANGED <<wvars, wallets, sinceRefresh, updating, subs, events, slept, feed>>

\* Lock() returns; the sink is subscribed and tracked; the updater is started
\* if none runs; the deferred Unlock (part_001:404-418).
SubscribeEnter(c) ==
    /\ rpc[c] = "s_wait" /\ LockReady(regLock, c)
    /\ subs' = subs + 1
    /\ IF MustStart(updating)
       THEN /\ \E u \in Updaters : rpc[u] = "u_none"
            /\ updating' = TRUE
            /\ rpc' = [rpc EXCEPT ![c] = "idle", ![FreeUpdater] = "u_sleep"]
            /\ slept' = [slept EXCEPT ![FreeUpdater] = 0]
       ELSE /\ rpc' = [rpc EXCEPT ![c] = "idle"]
            /\ UNCHANGED <<updating, slept>>
    /\ regLock' = Unlock(regLock)
    /\ done' = Returned(c, "Subscribe", "ok")
    /\ UNCHANGED <<wvars, wallets, sinceRefresh, events, feed>>

\* A subscriber cancels its subscription: the scope's count drops; the
\* registry's lock is not involved.
Unsubscribe ==
    /\ subs > 0
    /\ subs' = subs - 1
    /\ done' = NoCall
    /\ UNCHANGED <<wvars, wallets, sinceRefresh, updating, regLock, rpc, events,
                   slept, feed>>

\* time.Sleep(refreshCycle) returns; refreshWallets is called (part_001:427-430).
UpdaterWake(u) ==
    /\ rpc[u] = "u_sleep" /\ slept[u] >= refreshCycle
    /\ rpc' = [rpc EXCEPT ![u] = "r_check"]
    /\ slept' = [slept EXCEPT ![u] = 0]
    /\ done' = NoCall
    /\ UNCHANGED <<wvars, wallets, sinceRefresh, updating, subs, regLock, events, feed>>

\* remoteWallet.stateLock.Lock() is entered (part_001:433).
UpdaterLock(u) ==
    /\ rpc[u] = "u_lock" /\ regLock.writer = Nil
    /\ regLock' = LockAnnounce(regLock, u)
    /\ rpc' = [rpc EXCEPT ![u] = "u_wait"]
    /\ done' = NoCall
    /\ UNCHANGED <<wvars, wallets, sinceRefresh, updating, subs, events, slept, feed>>

\* Lock() returns; without subscribers the updater clears updating and
\* returns, else it goes back to sleep; Unlock (part_001:433-439).
UpdaterCheck(u) ==
    /\ rpc[u] = "u_wait" /\ LockReady(regLock, u)
    /\ IF MustStop(subs)
       THEN /\ updating' = FALSE
            /\ rpc' = [rpc EXCEPT ![u] = "u_none"]
       ELSE /\ rpc' = [rpc EXCEPT ![u] = "u_sleep"]
            /\ UNCHANGED updating
    /\ regLock' = Unlock(regLock)
    /\ done' = IF MustStop(subs) THEN Returned(u, "updater", "stopped") ELSE NoCall
    /\ UNCHANGED <<wvars, wallets, sinceRefresh, subs, events, slept, feed>>

\* Time passes: by less than the throttle window, or by a refresh cycle.
TickSteps == {SmallStep, refreshCycle}
Tick(d) ==
    /\ sinceRefresh' = Min(sinceRefresh + d, refreshThrottling)
    /\ slept' = [u \in Updaters |-> IF rpc[u] = "u_sleep"
                                     THEN Min(slept[u] + d, refreshCycle)
                                     ELSE slept[u]]
    /\ done' = NoCall
    /\ UNCHANGED <<wvars, wallets, updating, subs, regLock, rpc, events, feed>>

(***************************************************************************)
(* The state after the struct literals of newRemoteWallet (part_001:337)   *)
(* and of the wallet (part_001:387): every field not named there has its   *)
(* zero value, commsLock among them.                                       *)
(***************************************************************************)
WalletInit ==
    /\ accounts = << >>
    /\ paths = "nil"
    /\ healthQuit = Nil
    /\ stateLock = FreeLock(Tasks)
    /\ arg = [c \in AllClients |-> "none"]
    /\ hQuit = [c \in AllClients |-> Nil]
    /\ herr = [c \in AllClients |-> "nil"]
    /\ hbch = [h \in Hbs |-> Nil]
    /\ errc = [h \in Hbs |-> Nil]
    /\ err = [h \in Hbs |-> "nil"]
    /\ senders = 0
    /\ done = NoCall

RegistryInit ==
    /\ wallets = << >>
    /\ sinceRefresh = refreshThrottling
    /\ updating = FALSE
    /\ subs = 0
    /\ regLock = FreeLock(RTasks)
    /\ feed = << >>
    /\ rpc = [t \in RTasks |-> IF t = Ctor THEN "r_check"
                               ELSE IF t \in Callers THEN "idle" ELSE "u_none"]
    /\ events = [t \in RTasks |-> << >>]
    /\ slept = [u \in Updaters |-> 0]

\* The goroutines at the start: the heartbeat tasks are not started yet; callers
\* outside S stay away from the wallet.
StartPc(S) == [t \in Tasks |-> IF t \in S THEN "idle"
                               ELSE IF t \in Hbs THEN "hb_unborn" ELSE "absent"]

Init == WalletInit /\ RegistryInit /\ commsLock = "nil" /\ pc = StartPc(Clients)

\* The steps of the wallet that the program can take: with commsLock nil the
\* heartbeat task never gets past <-w.commsLock.
WalletNext ==
    \/ \E c \in Clients :
         \/ OpenLock(c) \/ OpenEnter(c) \/ OpenDriverReturn(c)
         \/ CloseRead(c) \/ CloseLock(c) \/ CloseTeardown(c)
         \/ SignTxContains(c) \/ SignTxReturn(c)
         \/ StatusCall(c) \/ StatusReturn(c)
         \/ AccountsRLock(c) \/ AccountsReturn(c)
    \/ \E c \in Clients, a \in Addrs : SignTxRLock(c, a) \/ ContainsCall(c, a)
    \/ \E c \in Clients, h \in Hbs : CloseSend(c, h) \/ CloseRecv(c, h)
    \/ \E h \in Hbs : HbLoop(h) \/ HbTimer(h) \/ HbRLock(h)
    \/ FeedSendOpened

\* The heartbeat's steps behind the communication token.
TokenNext == \E h \in Hbs : HbComms(h) \/ HbBeat(h) \/ HbLock(h) \/ HbTeardown(h)

RegistryNext ==
    \/ \E t \in RTasks : Refresh(t)
    \/ \E c \in Callers : WalletsCall(c) \/ WalletsCopy(c)
                           \/ SubscribeLock(c) \/ SubscribeEnter(c)
    \/ \E u \in Updaters : UpdaterWake(u) \/ UpdaterLock(u) \/ UpdaterCheck(u)
    \/ Unsubscribe
    \/ \E d \in TickSteps : Tick(d)

\* The wallet of a constructed registry, and its clients.
Next == Refresh(Ctor) \/ WalletNext
Spec == Init /\ [][Next]_vars

\* The registry, its callers and its updater.
RegistrySpec == Init /\ [][RegistryNext]_vars

\* A wallet whose commsLock was made with one slot and holds its token, as the
\* comment on the field describes it (part_000:104).
TokenInit == WalletInit /\ RegistryInit /\ commsLock = "token" /\ pc = StartPc(Clients)
TokenSpec == TokenInit /\ [][Next \/ TokenNext]_vars

\* Three goroutines calling Open, Accounts, SignTx and Status; no other step of
\* the program is scheduled.
LockInit == WalletInit /\ RegistryInit /\ commsLock = "nil" /\ pc = StartPc(AllClients)
LockNext ==
    \/ Refresh(Ctor)
    \/ \E c \in AllClients :
         \/ OpenLock(c) \/ OpenEnter(c) \/ OpenDriverReturn(c)
         \/ SignTxContains(c) \/ SignTxReturn(c)
         \/ StatusCall(c) \/ StatusReturn(c)
         \/ AccountsRLock(c) \/ AccountsReturn(c)
    \/ \E c \in AllClients, a \in Addrs : SignTxRLock(c, a)
LockSpec == LockInit /\ [][LockNext]_vars

(***************************************************************************)
(* Fairness: every goroutine that can take a step eventually takes it; a   *)
(* client may stay idle, a driver call returns, and a sender waiting on    *)
(* healthQuit is served when the heartbeat task comes to its select (the   *)
(* timer is not due then).                                                 *)
(***************************************************************************)
ClientStep(c) ==
    \/ OpenEnter(c) \/ OpenDriverReturn(c)
    \/ CloseLock(c) \/ CloseTeardown(c)
    \/ SignTxContains(c) \/ SignTxReturn(c)
    \/ StatusReturn(c) \/ AccountsReturn(c)
    \/ \E h \in Hbs : CloseRecv(c, h)
HbStep(h) == HbLoop(h) \/ HbRLock(h)
Fairness ==
    /\ \A c \in Clients : WF_vars(ClientStep(c))
    /\ \A c \in Clients : SF_vars(\E h \in Hbs : CloseSend(c, h))
    /\ \A h \in Hbs : WF_vars(HbStep(h))
    /\ WF_vars(Refresh(Ctor))
    /\ WF_vars(FeedSendOpened)
FairSpec == Spec /\ Fairness

(***************************************************************************)
(* Claims.                                                                 *)
(***************************************************************************)
\* The addresses of a cached account list.
Cached(list) == {list[i] : i \in 1..Len(list)}

\* C1: a Close() on an Open wallet (it read the handshake channel made by the
\* Open that opened it) returns no error, and when it returns the heartbeat
\* task started by that Open has terminated.
C1_CloseStopsHeartbeat ==
    [][\A c \in Clients :
         (pc[c] = "close_wait" /\ pc'[c] = "idle" /\ hQuit[c] /= Nil)
         => /\ done' = Returned(c, "Close", "ok")
            /\ pc'[HbOf(hQuit[c])] = "hb_done"]_vars

\* C2: a Close() that has a termination request for the heartbeat task
\* eventually returns.
C2_CloseReturns ==
    \A c \in Clients : (pc[c] = "close_send") ~> (pc[c] = "idle")

\* C3: Open on a wallet whose paths is non-nil returns ErrWalletAlreadyOpen:
\* paths, healthQuit and accounts keep their values, the driver's Open is not
\* entered, no heartbeat task starts, no event is queued or published.
C3_OpenTwice ==
    [][\A c \in Clients :
         (pc[c] = "open_wait" /\ pc'[c] /= "open_wait" /\ paths /= "nil")
         => /\ done' = Returned(c, "Open", "ErrWalletAlreadyOpen")
            /\ pc'[c] = "idle"
            /\ paths' = paths /\ healthQuit' = healthQuit /\ accounts' = accounts
            /\ \A h \in Hbs : pc'[h] = pc[h]
            /\ senders' = senders /\ feed' = feed]_vars
C3_Witness ==
    /\ done.op = "Open" /\ done.res = "ErrWalletAlreadyOpen"
    /\ paths = "map" /\ healthQuit /= Nil

\* C4: when the driver's Open fails, Open returns the error and the wallet is
\* Closed afterwards (paths nil, healthQuit nil, no heartbeat task started, no
\* Opened event queued or published); an Open that finds paths nil is not
\* rejected, and succeeds when the driver's Open succeeds.
C4_FailedOpen ==
    [][\A c \in Clients :
         /\ (pc[c] = "open_driver" /\ pc'[c] = "idle" /\ done'.res /= "ok")
            => /\ done' = Returned(c, "Open", "ErrDriver")
               /\ paths' = "nil" /\ healthQuit' = Nil
               /\ \A h \in Hbs : pc'[h] = pc[h]
               /\ senders' = senders /\ feed' = feed
         /\ (pc[c] = "open_wait" /\ pc'[c] /= "open_wait" /\ paths = "nil")
            => /\ pc'[c] = "open_driver"
               /\ done' = NoCall
         /\ (pc[c] = "open_driver" /\ pc'[c] = "idle" /\ done'.res /= "ErrDriver")
            => /\ done' = Returned(c, "Open", "ok")
               /\ paths' = "map" /\ healthQuit' /= Nil]_vars
C4_Witness ==
    /\ done.op = "Open" /\ done.res = "ErrDriver"
    /\ paths = "nil" /\ healthQuit = Nil

\* C5: SignTx for an account that is not in the cached list returns
\* ErrUnknownAccount and does not enter the driver's SignTx.
C5_UnknownAccount ==
    [][\A c \in Clients :
         (pc[c] = "sign_contains" /\ pc'[c] /= "sign_contains"
            /\ arg[c] \notin Cached(accounts))
         => /\ done' = Returned(c, "SignTx", "ErrUnknownAccount")
            /\ pc'[c] = "idle"]_vars
C5_Witness ==
    /\ done.op = "SignTx" /\ done.res = "ErrUnknownAccount"
    /\ accounts /= << >>

\* C6: when the driver's SignTx answers without error but with a signer other
\* than the account, SignTx returns the signer-mismatch error; it returns a
\* signed transaction only if the account was found in the cached list, the
\* driver answered without error and the signer is the account.
C6_SignerMismatch ==
    [][\A c \in Clients :
         /\ (pc'[c] = "sign_driver" /\ pc[c] /= "sign_driver")
            => (pc[c] = "sign_contains" /\ arg[c] \in Cached(accounts))
         /\ (done'.who = c /\ done'.op = "SignTx" /\ done'.res /= "ErrUnknownAccount")
            => /\ pc[c] = "sign_driver"
               /\ done'.drv[1] = arg[c]
               /\ (done'.drv[3] = "ok" /\ done'.drv[2] /= done'.drv[1])
                  => done'.res = "ErrSignerMismatch"
               /\ done'.res = "signed"
                  => (done'.drv[3] = "ok" /\ done'.drv[2] = done'.drv[1])]_vars
C6_Witness ==
    /\ done.op = "SignTx" /\ done.res = "ErrSignerMismatch"
    /\ done.drv[3] = "ok" /\ done.drv[2] /= done.drv[1]

\* C7: a Status() call issued while a SignTx call is inside the driver's
\* SignTx gets the shared lock at once: it does not wait for the driver.
C7_StatusDuringSign ==
    [][\A c \in AllClients :
         (pc[c] = "idle" /\ pc'[c] = "status_rlock"
            /\ \E s \in AllClients : pc[s] = "sign_driver")
         => RLockReady(stateLock')]_vars

\* C8: a refresh attempt by Wallets() or by the updater that starts inside the
\* throttle window returns at once: no scan, the wallet list, the timestamp and
\* the feed are left as they were; an attempt that starts outside the window
\* goes on to the scan and then sets the timestamp to the current time, with
\* or without the creation of a wallet in between.
C8_Throttle ==
    [][\A t \in Callers \cup Updaters :
         /\ (rpc[t] = "r_check" /\ rpc'[t] /= "r_check"
               /\ sinceRefresh < refreshThrottling)
            => /\ rpc'[t] \notin {"r_scan", "r_create", "r_stamp", "r_send"}
               /\ wallets' = wallets /\ sinceRefresh' = sinceRefresh
               /\ feed' = feed /\ events'[t] = << >>
         /\ (rpc[t] = "r_check" /\ rpc'[t] /= "r_check"
               /\ sinceRefresh >= refreshThrottling)
            => rpc'[t] = "r_scan"
         /\ (rpc[t] = "r_scan" /\ rpc'[t] /= "r_scan")
            => rpc'[t] \in {"r_create", "r_stamp"}
         /\ (rpc[t] = "r_create" /\ rpc'[t] /= "r_create")
            => rpc'[t] = "r_stamp"
         /\ (rpc[t] = "r_stamp" /\ rpc'[t] /= "r_stamp")
            => sinceRefresh' = 0]_vars
C8_Witness ==
    /\ done.op = "refreshWallets" /\ done.res = "throttled"
    /\ done.who \in Callers
    /\ sinceRefresh = SmallStep

\* Fairness of the registry's goroutines: a call that can go on goes on, time
\* passes, a caller may stay idle.
UpdaterStep(u) == UpdaterWake(u) \/ UpdaterLock(u) \/ UpdaterCheck(u)
RegistryFairness ==
    /\ \A t \in RTasks : WF_vars(Refresh(t))
    /\ \A c \in Callers : WF_vars(WalletsCopy(c) \/ SubscribeEnter(c))
    /\ \A u \in Updaters : WF_vars(UpdaterStep(u))
    /\ WF_vars(Tick(refreshCycle))
FairRegistrySpec == RegistrySpec /\ RegistryFairness

\* C9: if from some point on there is no live subscription, then from some
\* point on no updater task is alive and the updating flag is false.
C9_UpdaterStops ==
    (<>[](subs = 0)) => <>[](~updating /\ \A u \in Updaters : rpc[u] = "u_none")
C9_Witness ==
    /\ done.op = "updater" /\ done.res = "stopped"
    /\ subs = 0 /\ ~updating
    /\ \A u \in Updaters : rpc[u] = "u_none"

\* C10: once the registry is constructed its list holds one wallet, the one
\* the constructor made, with the configured scheme and signing-server address
\* in its URL; every Wallets() call returns that list; the feed carries one
\* Arrived event, for that wallet, and never a second one.
TheWallet == [id |-> 1, url |-> [Scheme |-> scheme, Path |-> serverURL]]
C10_OneWallet ==
    /\ Arrivals(feed) <= 1
    /\ Constructed => /\ wallets = <<TheWallet>>
                      /\ feed = <<[Wallet |-> TheWallet, Kind |-> "Arrived"]>>
    /\ done.op = "Wallets" => done.list = <<TheWallet>>
C10_Witness ==
    /\ done.op = "Wallets" /\ done.list = <<TheWallet>>
    /\ Arrivals(feed) = 1
    /\ \E u \in Updaters : rpc[u] /= "u_none"

C12_AccountsCache ==
    [][\A c \in Clients :
         (pc[c] = "accounts_driver" /\ pc'[c] = "idle")
         => /\ done'.who = c /\ done'.op = "Accounts"
            /\ done'.res = "ok" => accounts' = done'.list
            /\ done'.res /= "ok" => (done'.list = << >> /\ accounts' = accounts)]_vars

\* C13: an Open() that succeeds leaves paths non-nil and healthQuit a channel
\* made by this call, starts one heartbeat task (the one of that channel) and
\* one sender of the Opened event; an Open() that fails starts neither. Every
\* successful Open is matched by one Opened event of the wallet, published or
\* in the hands of a sender that nothing keeps from publishing it.
Opened(q) == Cardinality({i \in 1..Len(q) : q[i].Kind = "Opened"})
C13_OpenedOnce ==
    /\ [][\A c \in Clients :
            (pc[c] = "open_driver" /\ pc'[c] = "idle")
            => IF done'.res = "ok"
               THEN /\ paths' = "map"
                    /\ healthQuit' \in Chans
                    /\ pc[HbOf(healthQuit')] = "hb_unborn"
                    /\ pc'[HbOf(healthQuit')] = "hb_loop"
                    /\ \A h \in Hbs \ {HbOf(healthQuit')} : pc'[h] = pc[h]
                    /\ senders' = senders + 1
               ELSE /\ \A h \in Hbs : pc'[h] = pc[h]
                    /\ senders' = senders /\ feed' = feed]_vars
    /\ [](/\ Opened(feed) + senders = Cardinality(Spawned)
          /\ \A i \in 1..Len(feed) :
               feed[i].Kind = "Opened" => feed[i].Wallet = wallets[1]
          /\ senders > 0 => ENABLED FeedSendOpened)
C13_Witness ==
    /\ Cardinality(Spawned) = MaxOpens
    /\ Opened(feed) = MaxOpens /\ senders = 0

\* C14: when a Close() returns the wallet is Closed (paths nil, healthQuit
\* nil, no cached account); an Open() that finds the wallet Closed goes into
\* the driver's Open and, unless that fails, returns success with the wallet
\* Open; so on every Open/Close cycle.
C14_Reopen ==
    [][\A c \in Clients :
         /\ (pc[c] = "close_wait" /\ pc'[c] = "idle")
            => /\ done'.who = c /\ done'.op = "Close"
               /\ paths' = "nil" /\ healthQuit' = Nil /\ accounts' = << >>
         /\ (pc[c] = "open_wait" /\ pc'[c] /= "open_wait"
               /\ paths = "nil" /\ healthQuit = Nil)
            => pc'[c] = "open_driver"
         /\ (pc[c] = "open_driver" /\ pc'[c] = "idle")
            => /\ done'.who = c /\ done'.op = "Open"
               /\ done'.res \in {"ok", "ErrDriver"}
               /\ done'.res = "ok" => (paths' = "map" /\ healthQuit' /= Nil)]_vars
\* The second Open of a wallet succeeds after a Close that had stopped the
\* heartbeat task of the first.
C14_Witness ==
    /\ done.op = "Open" /\ done.res = "ok"
    /\ pc[HbOf(1)] = "hb_done" /\ healthQuit = 2
    /\ paths = "map"

Alive == {u \in Updaters : rpc[u] /= "u_none"}
C16_OneUpdater ==
    /\ Cardinality(Alive) <= 1
    /\ updating <=> Alive /= {}
C16_Witness ==
    /\ updating /\ Cardinality(Alive) = 1
    /\ subs = MaxSubs

\* C17: at most one of the driver's Heartbeat, SignTx and ReadAccounts is in
\* progress.
InDriver == {t \in Tasks : pc[t] \in {"hb_beat", "sign_driver", "accounts_driver"}}
C17_OneDriverCall == Cardinality(InDriver) <= 1

\* C18: a task that waits for the communication token or holds it holds the
\* state lock in shared mode, and the holder of the token has no request for
\* the state lock pending.
C18_LockOrder ==
    /\ \A h \in Hbs : pc[h] \in {"hb_comms", "hb_beat"} => stateLock.readers[h] = 1
    /\ \A c \in AllClients : pc[c] \notin {"hb_comms", "hb_beat"}
    /\ commsLock = "empty"
       => \E h \in Hbs : pc[h] = "hb_beat" /\ stateLock.writer /= h
C18_Witness ==
    \E h \in Hbs : /\ pc[h] = "hb_comms" /\ stateLock.readers[h] = 1
                   /\ paths = "map"

\* C19: a Wallets() caller or updater that writes the wallet list or the
\* timestamp holds the registry's lock exclusively, and no two tasks are in
\* the scan section of a refresh at once.
Scanning == {t \in RTasks : rpc[t] \in {"r_scan", "r_create", "r_stamp", "r_send"}}
C19_RegistryLocked ==
    /\ \A t \in Callers \cup Updaters :
         rpc[t] \in {"r_create", "r_stamp"} => regLock.writer = t
    /\ Cardinality(Scanning) <= 1

\* C20: a step that changes the cached account list or paths is taken by a
\* task that holds the state lock exclusively: a writer has the lock and no
\* reader has.
C20_WalletLocked ==
    [][(accounts' /= accounts \/ paths' /= paths)
       => /\ stateLock.writer /= Nil
          /\ \A t \in Tasks : stateLock.readers[t] = 0]_vars

\* C21: a heartbeat task that has taken the shared lock for its interval gets
\* the communication token: either it can take the token now, or the token
\* is with a task inside the driver's heartbeat, which gives it back; the
\* task is not left holding the shared lock with nothing to wait for.
C21_HeartbeatCycle ==
    \A h \in Hbs :
        pc[h] = "hb_comms" => (ENABLED HbComms(h) \/ \E g \in Hbs : pc[g] = "hb_beat")

Running == {h \in Hbs : pc[h] \notin {"hb_unborn", "hb_done"}}
Quiescent ==
    \A c \in AllClients :
        pc[c] \notin {"open_wait", "open_driver",
                      "close_send", "close_recv", "close_lock", "close_wait"}
C23_HeartbeatLifetime == (paths = "nil" /\ Quiescent) => Running = {}

\* C24: at most one heartbeat task is alive.
C24_OneHeartbeat == Cardinality(Running) <= 1

\* C25: while a subscription is live, updating is true and an updater task
\* is alive.
C25_UpdaterKept ==
    subs > 0 => (updating /\ \E u \in Updaters : rpc[u] /= "u_none")
\* A Subscribe() has returned while the updater was on its way to its
\* subscriber-count check.
C25_Witness ==
    /\ done.op = "Subscribe" /\ subs > 0
    /\ \E u \in Updaters : rpc[u] = "u_lock"

\* C26: a SignTx that holds the shared lock and has its nested shared
\* acquisition still to make is never behind an announced writer, which would
\* wait for this SignTx's shared lock while the SignTx waits for the writer.
C26_SignTxReturns ==
    \A c \in Clients :
        ~(/\ pc[c] = "sign_contains" /\ stateLock.readers[c] > 0
          /\ stateLock.writer /= Nil /\ ~stateLock.held)

\* C27: no Close() is left sending its termination request on a handshake
\* channel whose heartbeat task has exited.
C27_ConcurrentClose ==
    \A c \in Clients : pc[c] = "close_send" => pc[HbOf(hQuit[c])] /= "hb_done"

\* C28: no SignTx call is inside the driver's sign operation while the wallet
\* is Closed (paths nil).
C28_NoSignWhileClosed ==
    \A c \in Clients : pc[c] = "sign_driver" => paths /= "nil"

=============================================================================
